---------------------------- MODULE Spec2Model ----------------------------
(***************************************************************************)
(* Model of p4317q.py: the frame codec (__calc_check_sum, __build_cmd,     *)
(* __parse_reply), the transport session (query) and the value access      *)
(* layer (property getters/setters, set_value) of the DELL P4317Q serial   *)
(* controller.                                                             *)
(*                                                                         *)
(* Bytes are the integers 0..255, a bytes object is a sequence of bytes.   *)
(* A Python exception is a result record whose kind is the exception's     *)
(* class name.                                                             *)
(*                                                                         *)
(* Two specifications:                                                     *)
(*   SpecCodec  applies __build_cmd / __parse_reply to inputs drawn from   *)
(*              bounded sets, lets the link flip a bit of, or cut short, a *)
(*              frame that was accepted, and parses again;                 *)
(*   Spec       one controller object talking to a device over the serial  *)
(*              line: get, set and up/down calls, each broken into the     *)
(*              steps of query (open, write, read+parse, close).           *)
(***************************************************************************)
EXTENDS Integers, Sequences, FiniteSets, TLC

VARIABLES
    codecCall,   \* SpecCodec: the codec function under test and its arguments
    codecRet,    \* SpecCodec: what that function returned or raised
    name,        \* Spec: the member name n the calls of this run address
    dev,         \* Spec: payload the device stores for that member's opcode
    call,        \* Spec: the call in progress / last finished (op, v, ud, old, new)
    pc,          \* Spec: position inside the call
    q,           \* Spec: arguments of the query in progress (rw, cmd, data, who)
    handle,      \* Spec: number of serial handles currently open
    opens,       \* Spec: handles opened since the call started
    closes,      \* Spec: handles closed since the call started
    wire,        \* Spec: command frames written to the port since the call started
    rx,          \* Spec: bytes returned by the last s.read(64)
    qret,        \* Spec: what the last query returned or raised
    result       \* Spec: what the finished call returned or raised

vars == <<codecCall, codecRet, name, dev, call, pc, q, handle, opens, closes,
          wire, rx, qret, result>>

codecVars == <<codecCall, codecRet>>
ctlVars == <<name, dev, call, pc, q, handle, opens, closes, wire, rx, qret, result>>

---------------------------------------------------------------------------
(* Bounds of the model.                                                    *)

\* longest reply drawn byte by byte from ReplyAlphabet
MaxReplyLen == 6
\* longest payload of a drawn command / well-formed reply
MaxPayload == 2

---------------------------------------------------------------------------
(* Python helpers.                                                         *)

Min(a, b) == IF a < b THEN a ELSE b

\* s[a:b] on a bytes object, 0 <= a, 0 <= b: clipped to the object, never an error
Slice(s, a, b) ==
    LET hi == Min(b, Len(s))
    IN  IF a >= hi THEN <<>> ELSE SubSeq(s, a + 1, hi)

RECURSIVE XorBits(_, _, _)
XorBits(a, b, n) ==
    IF n = 0 THEN 0
    ELSE (((a % 2) + (b % 2)) % 2) + 2 * XorBits(a \div 2, b \div 2, n - 1)

\* a ^ b on two bytes; each operand is evaluated once and bound to its value
Xor(a, b) == CHOOSE r \in {XorBits(x, y, 8) : x \in {a}, y \in {b}} : TRUE

\* int.from_bytes(b, 'big'); int.from_bytes(b'', 'big') = 0
RECURSIVE from_bytes(_)
from_bytes(b) ==
    IF Len(b) = 0 THEN 0
    ELSE 256 * from_bytes(SubSeq(b, 1, Len(b) - 1)) + b[Len(b)]

\* v.to_bytes(1, 'big') raises OverflowError unless 0 <= v <= 255
to_bytes_overflow(v) == v < 0 \/ v > 255
to_bytes(v) == <<v>>

\* result records: every return value and every exception has the same shape
Res(kind, data, code) == [kind |-> kind, data |-> data, code |-> code]
Raise(kind) == Res(kind, <<>>, 0)
ReturnNone == Res("None", <<>>, 0)
ReturnBytes(b) == Res("Data", b, 0)
Pending == Res("pending", <<>>, 0)

---------------------------------------------------------------------------
(* Protocol constants.                                                     *)

HeaderCommand == <<\H37, \H51>>
HeaderReply == <<\H6F, \H37>>
ReadWrite == [Read |-> <<\HEB>>, Write |-> <<\HEA>>]
ReplyMarker == <<\H02>>
ResultCodeSuccess == <<\H00>>

---------------------------------------------------------------------------
(* Frame codec.                                                            *)

RECURSIVE XorAll(_, _)
XorAll(v, s) == IF Len(v) = 0 THEN s ELSE XorAll(Tail(v), Xor(s, Head(v)))

\* a mutation: the two header bytes are left out of the sum
calc_check_sum_no_header(v) == <<XorAll(Slice(v, 2, Len(v)), 0)>>

calc_check_sum(v) == <<XorAll(v, 0)>>

\* a mutation: the length byte also counts itself
build_cmd_len_plus_one(rw, cmd, data) ==
    LET n == Len(ReadWrite[rw]) + Len(cmd) + Len(data) + 1
        c == HeaderCommand \o to_bytes(n) \o ReadWrite[rw] \o cmd \o data
    IN  IF to_bytes_overflow(n) THEN Raise("OverflowError")
        ELSE Res("Frame", c \o calc_check_sum(c), 0)

build_cmd(rw, cmd, data) ==
    LET n == Len(ReadWrite[rw]) + Len(cmd) + Len(data)
        c == HeaderCommand \o to_bytes(n) \o ReadWrite[rw] \o cmd \o data
    IN  IF to_bytes_overflow(n) THEN Raise("OverflowError")
        ELSE Res("Frame", c \o calc_check_sum(c), 0)

\* a mutation: the echoed opcode is checked before the result code
parse_reply_cmd_first(cmd, reply) ==
    LET ln == from_bytes(Slice(reply, 2, 3))
    IN  IF Slice(reply, 0, 2) # HeaderReply THEN Raise("HeaderError")
        ELSE IF ln # Len(reply) - 4 THEN Raise("LengthError")
        ELSE IF Slice(reply, 3, 4) # ReplyMarker THEN Raise("FormatError")
        ELSE IF Slice(reply, 5, 6) # cmd THEN Raise("CommandError")
        ELSE IF Slice(reply, 4, 5) # ResultCodeSuccess
             THEN Res("ResultCodeError", <<>>, from_bytes(Slice(reply, 4, 5)))
        ELSE IF Slice(reply, ln + 3, ln + 4) # calc_check_sum(Slice(reply, 0, ln + 3))
             THEN Raise("ChecksumError")
        ELSE IF ln < 4 THEN ReturnNone
        ELSE ReturnBytes(Slice(reply, 6, ln + 3))

\* a mutation: the data slice starts one byte early, at the echoed opcode
parse_reply_slice_early(cmd, reply) ==
    LET ln == from_bytes(Slice(reply, 2, 3))
    IN  IF Slice(reply, 0, 2) # HeaderReply THEN Raise("HeaderError")
        ELSE IF ln # Len(reply) - 4 THEN Raise("LengthError")
        ELSE IF Slice(reply, 3, 4) # ReplyMarker THEN Raise("FormatError")
        ELSE IF Slice(reply, 4, 5) # ResultCodeSuccess
             THEN Res("ResultCodeError", <<>>, from_bytes(Slice(reply, 4, 5)))
        ELSE IF Slice(reply, 5, 6) # cmd THEN Raise("CommandError")
        ELSE IF Slice(reply, ln + 3, ln + 4) # calc_check_sum(Slice(reply, 0, ln + 3))
             THEN Raise("ChecksumError")
        ELSE IF ln < 4 THEN ReturnNone
        ELSE ReturnBytes(Slice(reply, 5, ln + 3))

\* a mutation: the checksum is recomputed over the header and fixed body only
parse_reply_sum_fixed_part(cmd, reply) ==
    LET ln == from_bytes(Slice(reply, 2, 3))
    IN  IF Slice(reply, 0, 2) # HeaderReply THEN Raise("HeaderError")
        ELSE IF ln # Len(reply) - 4 THEN Raise("LengthError")
        ELSE IF Slice(reply, 3, 4) # ReplyMarker THEN Raise("FormatError")
        ELSE IF Slice(reply, 4, 5) # ResultCodeSuccess
             THEN Res("ResultCodeError", <<>>, from_bytes(Slice(reply, 4, 5)))
        ELSE IF Slice(reply, 5, 6) # cmd THEN Raise("CommandError")
        ELSE IF Slice(reply, ln + 3, ln + 4) # calc_check_sum(Slice(reply, 0, 6))
             THEN Raise("ChecksumError")
        ELSE IF ln < 4 THEN ReturnNone
        ELSE ReturnBytes(Slice(reply, 6, ln + 3))

\* a mutation: the declared length is compared with the frame size less 3
parse_reply_len_off_by_one(cmd, reply) ==
    LET ln == from_bytes(Slice(reply, 2, 3))
    IN  IF Slice(reply, 0, 2) # HeaderReply THEN Raise("HeaderError")
        ELSE IF ln # Len(reply) - 3 THEN Raise("LengthError")
        ELSE IF Slice(reply, 3, 4) # ReplyMarker THEN Raise("FormatError")
        ELSE IF Slice(reply, 4, 5) # ResultCodeSuccess
             THEN Res("ResultCodeError", <<>>, from_bytes(Slice(reply, 4, 5)))
        ELSE IF Slice(reply, 5, 6) # cmd THEN Raise("CommandError")
        ELSE IF Slice(reply, ln + 3, ln + 4) # calc_check_sum(Slice(reply, 0, ln + 3))
             THEN Raise("ChecksumError")
        ELSE IF ln < 4 THEN ReturnNone
        ELSE ReturnBytes(Slice(reply, 6, ln + 3))

\* a mutation: the reply marker is checked before the declared length
parse_reply_marker_first(cmd, reply) ==
    LET ln == from_bytes(Slice(reply, 2, 3))
    IN  IF Slice(reply, 0, 2) # HeaderReply THEN Raise("HeaderError")
        ELSE IF Slice(reply, 3, 4) # ReplyMarker THEN Raise("FormatError")
        ELSE IF ln # Len(reply) - 4 THEN Raise("LengthError")
        ELSE IF Slice(reply, 4, 5) # ResultCodeSuccess
             THEN Res("ResultCodeError", <<>>, from_bytes(Slice(reply, 4, 5)))
        ELSE IF Slice(reply, 5, 6) # cmd THEN Raise("CommandError")
        ELSE IF Slice(reply, ln + 3, ln + 4) # calc_check_sum(Slice(reply, 0, ln + 3))
             THEN Raise("ChecksumError")
        ELSE IF ln < 4 THEN ReturnNone
        ELSE ReturnBytes(Slice(reply, 6, ln + 3))

parse_reply(cmd, reply) ==
    LET ln == from_bytes(Slice(reply, 2, 3))
    IN  IF Slice(reply, 0, 2) # HeaderReply THEN Raise("HeaderError")
        ELSE IF ln # Len(reply) - 4 THEN Raise("LengthError")
        ELSE IF Slice(reply, 3, 4) # ReplyMarker THEN Raise("FormatError")
        ELSE IF Slice(reply, 4, 5) # ResultCodeSuccess
             THEN Res("ResultCodeError", <<>>, from_bytes(Slice(reply, 4, 5)))
        ELSE IF Slice(reply, 5, 6) # cmd THEN Raise("CommandError")
        ELSE IF Slice(reply, ln + 3, ln + 4) # calc_check_sum(Slice(reply, 0, ln + 3))
             THEN Raise("ChecksumError")
        ELSE IF ln < 4 THEN ReturnNone
        ELSE ReturnBytes(Slice(reply, 6, ln + 3))

Accepted(r) == r.kind \in {"None", "Data"}

---------------------------------------------------------------------------
(* Static tables: commands, enumerations, members of P4317Q.               *)

Command ==
    [PowerState |-> <<\H20>>, Brightness |-> <<\H30>>, Contrast |-> <<\H31>>,
     AspectRatio |-> <<\H33>>, Sharpness |-> <<\H34>>,
     InputColorFormat |-> <<\H46>>, ColorPreset |-> <<\H48>>,
     VideoInput |-> <<\H62>>, PxPMode |-> <<\H70>>, PxPLocation |-> <<\H72>>,
     OSDTransparency |-> <<\H80>>, OSDLanguage |-> <<\H81>>,
     OSDTimer |-> <<\H83>>]

Mem(n, v) == [name |-> n, value |-> v]

\* the Enum classes, members in declaration order (the order of list(T))
Enums ==
    [State |-> << Mem("Off", <<\H00>>), Mem("On", <<\H01>>) >>,
     AspectRatio |-> << Mem("AR_16_9", <<\H00>>), Mem("AR_4_3", <<\H02>>),
                        Mem("AR_5_4", <<\H04>>) >>,
     ColorFormat |-> << Mem("RGB", <<\H00>>), Mem("YPbPr", <<\H01>>) >>,
     ColorPreset |-> << Mem("Standard", <<\H01, \H00, \H00, \H00>>),
                        Mem("Paper", <<\H10, \H00, \H00, \H00>>),
                        Mem("CustomColor", <<\H80, \H00, \H00, \H00>>),
                        Mem("Warm", <<\H00, \H01, \H00, \H00>>),
                        Mem("Cool", <<\H00, \H02, \H00, \H00>>) >>,
     VideoInput |-> << Mem("HDMI1", <<\H01, \H00, \H00, \H00>>),
                       Mem("HDMI2", <<\H02, \H00, \H00, \H00>>),
                       Mem("DP1", <<\H08, \H00, \H00, \H00>>),
                       Mem("DP2", <<\H10, \H00, \H00, \H00>>),
                       Mem("VGA1", <<\H40, \H00, \H00, \H00>>) >>,
     PxPMode |-> << Mem("Off", <<\H00>>), Mem("PIPSmall", <<\H01>>),
                    Mem("PIPLarge", <<\H02>>), Mem("PBP2Windows", <<\H05>>),
                    Mem("PBP3WindowsMode1", <<\H06>>),
                    Mem("PBP3WindowsMode2", <<\H07>>),
                    Mem("PBP4Windows", <<\H08>>) >>,
     PxPLocation |-> << Mem("TopRight", <<\H00>>), Mem("TopLeft", <<\H01>>),
                        Mem("BottomRight", <<\H02>>), Mem("BottomLeft", <<\H03>>) >>,
     Language |-> << Mem("English", <<\H00>>), Mem("Spanish", <<\H01>>),
                     Mem("French", <<\H02>>), Mem("German", <<\H03>>),
                     Mem("Portuguese", <<\H04>>), Mem("Russian", <<\H05>>),
                     Mem("Chinese", <<\H06>>), Mem("Japanese", <<\H07>>) >>]

UpDown == [Up |-> 1, Down |-> -1]

\* One row per read/write member of P4317Q:
\*   cmd    the Command its getter and setter pass to query
\*   get    what the getter wraps the payload in: "int" for int.from_bytes,
\*          else the Enum class it calls
\*   check  the range(lo, hi) the setter tests v against, <<>> when the
\*          setter has no test
\*   doc    the type the docstrings of getter and setter name
Prop(cmd, get, check, doc) == [cmd |-> cmd, get |-> get, check |-> check, doc |-> doc]

Members ==
    [power_state |-> Prop(Command.PowerState, "State", <<>>, "State"),
     brightness |-> Prop(Command.Brightness, "int", <<0, 100>>, "int"),
     contrast |-> Prop(Command.Contrast, "int", <<0, 100>>, "int"),
     aspect_ratio |-> Prop(Command.AspectRatio, "AspectRatio", <<>>, "AspectRatio"),
     sharpness |-> Prop(Command.Sharpness, "int", <<>>, "int"),
     input_color_format |-> Prop(Command.InputColorFormat, "ColorFormat", <<>>, "ColorFormat"),
     color_preset |-> Prop(Command.ColorPreset, "ColorPreset", <<>>, "ColorPreset"),
     video_input |-> Prop(Command.VideoInput, "VideoInput", <<>>, "VideoInput"),
     pxp_mode |-> Prop(Command.PxPMode, "State", <<>>, "PxPMode"),
     pxp_location |-> Prop(Command.PxPLocation, "PxPLocation", <<>>, "PxPLocation"),
     osd_transparency |-> Prop(Command.OSDTransparency, "int", <<0, 100>>, "int"),
     osd_language |-> Prop(Command.OSDLanguage, "Language", <<>>, "Language"),
     osd_timer |-> Prop(Command.OSDTimer, "int", <<5, 60>>, "int")]

Names == DOMAIN Members

---------------------------------------------------------------------------
(* Python values and call outcomes.                                        *)

\* a Python object: an int x, or the member at 0-based position x of list(T)
PyVal(type, x) == [type |-> type, x |-> x]
PyInt(x) == PyVal("int", x)
PyNone == PyVal("NoneType", 0)

\* member.value
ValueOf(v) == Enums[v.type][v.x + 1].value

\* what a call returned (kind "return") or the exception it raised
Out(kind, val, code) == [kind |-> kind, val |-> val, code |-> code]
Return(val) == Out("return", val, 0)
Raised(kind) == Out(kind, PyNone, 0)
NoOut == Out("pending", PyNone, 0)

\* '{}'.format(v): the source text of v, a decimal literal with its sign, or
\* Class.Member
py_format(v) ==
    IF v.type = "int"
    THEN [text |-> "int", neg |-> v.x < 0, digits |-> IF v.x < 0 THEN 0 - v.x ELSE v.x,
          cls |-> "int", attr |-> ""]
    ELSE [text |-> "attr", neg |-> FALSE, digits |-> 0,
          cls |-> v.type, attr |-> Enums[v.type][v.x + 1].name]

\* evaluation of that text by exec/eval in the module's namespace
py_eval(t) ==
    IF t.text = "int"
    THEN PyInt(IF t.neg THEN 0 - t.digits ELSE t.digits)
    ELSE PyVal(t.cls, (CHOOSE i \in 1..Len(Enums[t.cls]) :
                          Enums[t.cls][i].name = t.attr) - 1)

\* T(value): the member of T with that value, ValueError when there is none
\* (also for None)
enum_call(T, r) ==
    IF r.kind = "Data" /\ \E i \in 1..Len(Enums[T]) : Enums[T][i].value = r.data
    THEN Return(PyVal(T, (CHOOSE i \in 1..Len(Enums[T]) :
                             Enums[T][i].value = r.data) - 1))
    ELSE Raised("ValueError")

\* T[key]: EnumMeta.__getitem__ looks the key up among the member NAMES
enum_getitem(T, key) ==
    IF key.type = "str" /\ \E i \in 1..Len(Enums[T]) : Enums[T][i].name = key.x
    THEN Return(PyVal(T, (CHOOSE i \in 1..Len(Enums[T]) :
                             Enums[T][i].name = key.x) - 1))
    ELSE Raised("KeyError")

\* list(T)[i] with Python's negative indices
list_index(T, i) ==
    LET n == Len(Enums[T])
    IN  IF i >= n \/ i < 0 - n THEN Raised("IndexError")
        ELSE Return(PyVal(T, IF i < 0 THEN i + n ELSE i))

---------------------------------------------------------------------------
(* Value access layer: the property getters and setters, set_value.        *)

\* the getter of member n applied to what query returned or raised:
\* int.from_bytes(payload, endian) or T(payload); int.from_bytes(None)
\* is a TypeError
getter(n, r) ==
    IF ~Accepted(r) THEN Out(r.kind, PyNone, r.code)
    ELSE IF Members[n].get = "int"
         THEN IF r.kind = "None" THEN Raised("TypeError")
              ELSE Return(PyInt(from_bytes(r.data)))
    ELSE enum_call(Members[n].get, r)

\* the setter of member n up to its call of query: the exception it raises
\* before any I/O, or kind "query" with the data it passes on
setter(n, v) ==
    LET m == Members[n]
    IN  IF m.check # <<>> /\ ~(v.type = "int" /\ m.check[1] <= v.x /\ v.x < m.check[2])
        THEN Raise("ValueError")
        ELSE IF m.doc = "int"
             THEN IF to_bytes_overflow(v.x) THEN Raise("OverflowError")
                  ELSE Res("query", to_bytes(v.x), 0)
        ELSE Res("query", ValueOf(v), 0)

\* exec('self.{}={}'.format(n, v))
exec_assign(n, v) == setter(n, py_eval(py_format(v)))

Step(act, new, err, data) == [act |-> act, new |-> new, err |-> err, data |-> data]

\* a mutation: the int branch lets the ValueError of the setter escape
set_value_ud_no_catch(n, old, ud) ==
    IF old.type = "int"
    THEN LET new == PyInt(old.x + ud)
             s == exec_assign(n, new)
         IN  IF s.kind # "query" THEN Step("raise", old, s.kind, <<>>)
             ELSE Step("assign", new, "", s.data)
    ELSE LET T == old.type
             i == list_index(T, old.x + ud)
             c == IF i.kind = "IndexError"
                  THEN enum_getitem(T, PyInt(IF 0 <= ud THEN 0 ELSE -1))
                  ELSE i
         IN  IF c.kind # "return" THEN Step("raise", old, c.kind, <<>>)
             ELSE LET s == exec_assign(n, c.val)
                  IN  IF s.kind # "query" THEN Step("raise", old, s.kind, <<>>)
                      ELSE Step("assign", c.val, "", s.data)

\* set_value(n, ud=ud) after old = self.n was read: what it does next.
\*   "hold"    new = old, nothing is written      (except ValueError)
\*   "raise"   the exception err leaves set_value
\*   "assign"  the setter goes on to query(Write, cmd, data); new is returned
\* int: new = old + ud.value, assigned inside try/except ValueError.
\* Enum T: T(list(T)[list(T).index(old) + ud.value]); on IndexError
\* T[0] if 0 <= ud.value else T[-1]; the assignment is outside the try.
set_value_ud(n, old, ud) ==
    IF old.type = "int"
    THEN LET new == PyInt(old.x + ud)
             s == exec_assign(n, new)
         IN  IF s.kind = "ValueError" THEN Step("hold", old, "", <<>>)
             ELSE IF s.kind # "query" THEN Step("raise", old, s.kind, <<>>)
             ELSE Step("assign", new, "", s.data)
    ELSE LET T == old.type
             i == list_index(T, old.x + ud)
             c == IF i.kind = "IndexError"
                  THEN enum_getitem(T, PyInt(IF 0 <= ud THEN 0 ELSE -1))
                  ELSE i
         IN  IF c.kind # "return" THEN Step("raise", old, c.kind, <<>>)
             ELSE LET s == exec_assign(n, c.val)
                  IN  IF s.kind # "query" THEN Step("raise", old, s.kind, <<>>)
                      ELSE Step("assign", c.val, "", s.data)

---------------------------------------------------------------------------
(* The device and the serial link, as seen through s.write and s.read.     *)

\* values of the integer members the runs start from and assign
IntSamples == {0, 1, 5, 6, 50, 58, 59, 98, 99}
SetInts == {-1, 0, 4, 5, 50, 59, 60, 99, 100, 150, 256}

\* the value domain of each member: 0..99, 5..59 for the OSD timer, the
\* members of the documented Enum class otherwise
Domain(n) ==
    IF Members[n].doc = "int"
    THEN IF n = "osd_timer" THEN 5..59 ELSE 0..99
    ELSE 0..(Len(Enums[Members[n].doc]) - 1)

\* payloads the device may hold for member n when a run starts
DeviceValues(n) ==
    IF Members[n].doc = "int"
    THEN { to_bytes(x) : x \in IntSamples \cap Domain(n) }
    ELSE { Enums[Members[n].doc][i + 1].value : i \in Domain(n) }

\* values a caller passes to set_value(n, v=...)
SetInputs(n) ==
    IF Members[n].doc = "int"
    THEN { PyInt(x) : x \in SetInts }
    ELSE { PyVal(Members[n].doc, i) : i \in Domain(n) }

\* the reply 6F 37 | 3 + len(D) | 02 | 00 | O | D | checksum
WellFormed(O, D) ==
    LET c == <<\H6F, \H37, 3 + Len(D), \H02, \H00>> \o O \o D
    IN  c \o <<XorAll(c, 0)>>

\* a reply whose length byte is one more than the bytes that follow it
LengthOneMore(O, D) ==
    LET c == <<\H6F, \H37, 4 + Len(D), \H02, \H00>> \o O \o D
    IN  c \o <<XorAll(c, 0)>>

\* what s.read(64) may return after the command qq was written: the device's
\* well-formed answer (the stored payload for Read, no payload for Write), or
\* nothing (timeout), a short read, an answer with a wrong marker, result
\* code, opcode or checksum, or an answer with the length byte one too high
Replies(qq, d) ==
    LET D == IF qq.rw = "Read" THEN d ELSE <<>>
        good == WellFormed(qq.cmd, D)
    IN  { good,
          <<>>,
          SubSeq(good, 1, 3),
          [good EXCEPT ![4] = \H00],
          [good EXCEPT ![5] = \H02],
          [good EXCEPT ![6] = Xor(@, \HFF)],
          [good EXCEPT ![Len(good)] = Xor(@, \H01)],
          LengthOneMore(qq.cmd, D) }

---------------------------------------------------------------------------
(* Spec: calls of get_value / set_value against the device.                *)

\* prev: the value the call before this one assigned with set_value(n, v=v)
\* when that call returned, None otherwise
Call(op, v, ud, stage, old, new, dev0, prev) ==
    [op |-> op, v |-> v, ud |-> ud, stage |-> stage, old |-> old, new |-> new,
     dev0 |-> dev0, prev |-> prev]

NoCall == Call("none", PyNone, 0, "none", PyNone, PyNone, <<>>, PyNone)

\* the value assigned by the call that has just finished, if it was a
\* set_value(n, v=v) that returned
LastSet ==
    IF pc = "done" /\ call.op = "set" /\ result.kind = "return" THEN call.v
    ELSE PyNone

Query(rw, cmd, data) == [rw |-> rw, cmd |-> cmd, data |-> data]

NoQuery == Query("Read", <<>>, <<>>)

\* the arguments of the codec function under test
CodecCall(fn, rw, cmd, data, reply, origin, pos) ==
    [fn |-> fn, rw |-> rw, cmd |-> cmd, data |-> data, reply |-> reply,
     origin |-> origin, pos |-> pos]

NoCodecCall == CodecCall("none", "Read", <<>>, <<>>, <<>>, "input", 0)

CodecIdle ==
    /\ codecCall = NoCodecCall
    /\ codecRet = Pending

Init ==
    /\ name \in Names
    /\ dev \in DeviceValues(name)
    /\ call = NoCall
    /\ pc = "idle"
    /\ q = NoQuery
    /\ handle = 0
    /\ opens = 0
    /\ closes = 0
    /\ wire = <<>>
    /\ rx = <<>>
    /\ qret = Pending
    /\ result = NoOut
    /\ CodecIdle

\* a call starts when no call is in progress; what is recorded of the
\* previous call is cleared
Start ==
    /\ pc \in {"idle", "done"}
    /\ handle' = handle
    /\ opens' = 0
    /\ closes' = 0
    /\ wire' = <<>>
    /\ rx' = <<>>
    /\ qret' = Pending
    /\ UNCHANGED <<name, dev, codecVars>>

\* get_value(n): eval('self.n'), the getter calls query(Read, cmd)
CallGet ==
    /\ Start
    /\ call' = Call("get", PyNone, 0, "get", PyNone, PyNone, dev, LastSet)
    /\ q' = Query("Read", Members[name].cmd, <<>>)
    /\ pc' = "open"
    /\ result' = NoOut

\* set_value(n, v=v): exec('self.n=v'); the setter raises before any I/O or
\* calls query(Write, cmd, data)
CallSet ==
    /\ Start
    /\ \E v \in SetInputs(name) :
         LET s == exec_assign(name, v)
         IN  /\ call' = Call("set", v, 0, "set", PyNone, v, dev, LastSet)
             /\ IF s.kind = "query"
                THEN /\ q' = Query("Write", Members[name].cmd, s.data)
                     /\ pc' = "open"
                     /\ result' = NoOut
                ELSE /\ q' = NoQuery
                     /\ pc' = "done"
                     /\ result' = Raised(s.kind)

\* set_value(n, ud=ud): old = eval('self.n'), the getter calls query(Read, cmd)
CallUpDown ==
    /\ Start
    /\ \E d \in {"Up", "Down"} :
         call' = Call(IF d = "Up" THEN "up" ELSE "down", PyNone, UpDown[d],
                      "old", PyNone, PyNone, dev, LastSet)
    /\ q' = Query("Read", Members[name].cmd, <<>>)
    /\ pc' = "open"
    /\ result' = NoOut

\* with serial.Serial(port=..., timeout=0.1) as s: the port opens
QueryOpen ==
    /\ pc = "open"
    /\ handle' = handle + 1
    /\ opens' = opens + 1
    /\ pc' = "write"
    /\ UNCHANGED <<name, dev, call, q, closes, wire, rx, qret, result, codecVars>>

\* serial.Serial(...) raises: the port cannot be opened; nothing in query,
\* the getters, the setters or set_value catches it
QueryOpenFails ==
    /\ pc = "open"
    /\ result' = Raised("SerialException")
    /\ pc' = "done"
    /\ UNCHANGED <<name, dev, call, q, handle, opens, closes, wire, rx, qret,
                   codecVars>>

\* reset both buffers, s.write(__build_cmd(rw, cmd, bytes(data))), s.flush();
\* a device that receives a Write command stores its payload
QueryWrite ==
    /\ pc = "write"
    /\ LET c == build_cmd(q.rw, q.cmd, q.data)
       IN  IF c.kind = "Frame"
           THEN /\ wire' = Append(wire, c.data)
                /\ dev' = IF q.rw = "Write" THEN q.data ELSE dev
                /\ qret' = qret
                /\ pc' = "read"
           ELSE /\ wire' = wire
                /\ dev' = dev
                /\ qret' = Raise(c.kind)
                /\ pc' = "close"
    /\ UNCHANGED <<name, call, q, handle, opens, closes, rx, result, codecVars>>

\* reply = s.read(64); __parse_reply(cmd, reply) returns or raises
QueryRead ==
    /\ pc = "read"
    /\ \E r \in Replies(q, dev) :
         /\ rx' = r
         /\ qret' = parse_reply(q.cmd, r)
    /\ pc' = "close"
    /\ UNCHANGED <<name, dev, call, q, handle, opens, closes, wire, result,
                   codecVars>>

\* a query that closes the port on the return path only and leaves it open
\* when parse_reply raises
QueryClose_on_return_only ==
    /\ pc = "close"
    /\ handle' = IF Accepted(qret) THEN handle - 1 ELSE handle
    /\ closes' = IF Accepted(qret) THEN closes + 1 ELSE closes
    /\ pc' = "ret"
    /\ UNCHANGED <<name, dev, call, q, opens, wire, rx, qret, result, codecVars>>

\* the with block is left, by return or by exception: the port is closed
QueryClose ==
    /\ pc = "close"
    /\ handle' = handle - 1
    /\ closes' = closes + 1
    /\ pc' = "ret"
    /\ UNCHANGED <<name, dev, call, q, opens, wire, rx, qret, result, codecVars>>

\* the getter wraps what query returned; get_value returns it
GetReturn ==
    /\ pc = "ret"
    /\ call.stage = "get"
    /\ result' = getter(name, qret)
    /\ pc' = "done"
    /\ UNCHANGED <<name, dev, call, q, handle, opens, closes, wire, rx, qret,
                   codecVars>>

\* the setter ignores what query returned; set_value returns new = v
SetReturn ==
    /\ pc = "ret"
    /\ call.stage = "set"
    /\ result' = IF Accepted(qret) THEN Return(call.v)
                 ELSE Out(qret.kind, PyNone, qret.code)
    /\ pc' = "done"
    /\ UNCHANGED <<name, dev, call, q, handle, opens, closes, wire, rx, qret,
                   codecVars>>

\* set_value(n, ud=ud) once the getter has returned old or raised: the
\* candidate is computed and assigned, which may start the Write query
UpDownAssign ==
    /\ pc = "ret"
    /\ call.stage = "old"
    /\ LET g == getter(name, qret)
           st == set_value_ud(name, g.val, call.ud)
       IN  IF g.kind # "return"
           THEN /\ result' = g
                /\ pc' = "done"
                /\ UNCHANGED <<call, q>>
           ELSE /\ call' = [call EXCEPT !.old = g.val, !.new = st.new,
                                        !.stage = IF st.act = "assign" THEN "new"
                                                  ELSE "end"]
                /\ CASE st.act = "hold" ->
                          /\ result' = Return(st.new)
                          /\ pc' = "done"
                          /\ q' = q
                     [] st.act = "raise" ->
                          /\ result' = Raised(st.err)
                          /\ pc' = "done"
                          /\ q' = q
                     [] st.act = "assign" ->
                          /\ result' = result
                          /\ pc' = "open"
                          /\ q' = Query("Write", Members[name].cmd, st.data)
    /\ UNCHANGED <<name, dev, handle, opens, closes, wire, rx, qret, codecVars>>

\* a set_value(n, ud=ud) that swallows what the Write query raised
UpDownReturn_swallows_error ==
    /\ pc = "ret"
    /\ call.stage = "new"
    /\ result' = Return(call.new)
    /\ pc' = "done"
    /\ UNCHANGED <<name, dev, call, q, handle, opens, closes, wire, rx, qret,
                   codecVars>>

\* the Write query of set_value(n, ud=ud) is over; set_value returns new
UpDownReturn ==
    /\ pc = "ret"
    /\ call.stage = "new"
    /\ result' = IF Accepted(qret) THEN Return(call.new)
                 ELSE Out(qret.kind, PyNone, qret.code)
    /\ pc' = "done"
    /\ UNCHANGED <<name, dev, call, q, handle, opens, closes, wire, rx, qret,
                   codecVars>>

Next ==
    \/ CallGet
    \/ CallSet
    \/ CallUpDown
    \/ QueryOpen
    \/ QueryOpenFails
    \/ QueryWrite
    \/ QueryRead
    \/ QueryClose
    \/ GetReturn
    \/ SetReturn
    \/ UpDownAssign
    \/ UpDownReturn

Spec == Init /\ [][Next]_vars

\* query is straight-line blocking code inside one with block: once the port
\* is open the write returns, s.read(64) returns after at most the 0.1 s
\* timeout, and leaving the block runs Serial.__exit__
SpecLive ==
    /\ Init /\ [][Next]_vars
    /\ WF_vars(QueryWrite)
    /\ WF_vars(QueryRead)
    /\ WF_vars(QueryClose)

---------------------------------------------------------------------------
(* SpecCodec: the codec functions applied to bounded inputs.               *)

\* cmd.value of the commands the codec is tried with: Brightness, AssertTag
\* and 0x58, one of the opcodes 0x00..0xfe that search_func probes
Opcodes == {<<\H30>>, <<\H00>>, <<\H58>>}

\* bytes a drawn reply is made of: the header bytes, the marker / a length,
\* the success code and one opcode
ReplyAlphabet == {\H00, \H02, \H37, \H6F, \H58}

\* bytes a drawn payload is made of
DataAlphabet == {\H00, \H32}

\* values a byte of a well-formed reply is overwritten with
GarbleAlphabet == {\H00, \H01, \HFF}

SeqsUpTo(A, n) == UNION {[1..k -> A] : k \in 0..n}

Payloads == SeqsUpTo(DataAlphabet, MaxPayload)

\* a well-formed reply with the bytes at (1-based) positions i and j overwritten
Garbled(F, i, a, j, b) == [[F EXCEPT ![i] = a] EXCEPT ![j] = b]

\* x with bit b inverted
FlipBitOf(x, b) == Xor(x, 2 ^ b)

CtlIdle ==
    /\ name = "none"
    /\ dev = <<>>
    /\ call = NoCall
    /\ pc = "idle"
    /\ q = NoQuery
    /\ handle = 0
    /\ opens = 0
    /\ closes = 0
    /\ wire = <<>>
    /\ rx = <<>>
    /\ qret = Pending
    /\ result = NoOut

\* the arguments are drawn from bounded sets: a command to build; or an
\* expected opcode with a reply that is any byte string over ReplyAlphabet, a
\* well-formed reply, or a well-formed reply with up to two bytes overwritten
InitCodec ==
    /\ \/ \E rw \in {"Read", "Write"}, cmd \in Opcodes, data \in Payloads :
            codecCall = CodecCall("build_cmd", rw, cmd, data, <<>>, "input", 0)
       \/ \E cmd \in Opcodes, k \in 0..MaxReplyLen :
            \E reply \in [1..k -> ReplyAlphabet] :
              codecCall = CodecCall("parse_reply", "Read", cmd, <<>>, reply, "input", 0)
       \/ \E cmd \in Opcodes, P \in Payloads :
            codecCall = CodecCall("parse_reply", "Read", cmd, <<>>,
                                  WellFormed(cmd, P), "input", 0)
       \/ \E cmd \in Opcodes, P \in Payloads :
            \E i \in 1..(Len(P) + 7), j \in 1..(Len(P) + 7),
               a \in GarbleAlphabet, b \in GarbleAlphabet :
              codecCall = CodecCall("parse_reply", "Read", cmd, <<>>,
                                    Garbled(WellFormed(cmd, P), i, a, j, b), "input", 0)
    /\ codecRet = Pending
    /\ CtlIdle

\* __build_cmd(rw, cmd, data)
BuildCmd ==
    /\ codecCall.fn = "build_cmd"
    /\ codecRet = Pending
    /\ codecRet' = build_cmd(codecCall.rw, codecCall.cmd, codecCall.data)
    /\ UNCHANGED <<codecCall, ctlVars>>

\* __parse_reply(cmd, reply)
ParseReply ==
    /\ codecCall.fn = "parse_reply"
    /\ codecRet = Pending
    /\ codecRet' = parse_reply(codecCall.cmd, codecCall.reply)
    /\ UNCHANGED <<codecCall, ctlVars>>

\* the link inverts one bit of a reply that was accepted; it is parsed again
FlipBit ==
    /\ codecCall.fn = "parse_reply"
    /\ codecCall.origin = "input"
    /\ Accepted(codecRet)
    /\ \E i \in 1..Len(codecCall.reply), b \in 0..7 :
         codecCall' = [codecCall EXCEPT
                         !.reply = [@ EXCEPT ![i] = FlipBitOf(@, b)],
                         !.origin = "flip",
                         !.pos = i - 1]
    /\ codecRet' = Pending
    /\ UNCHANGED ctlVars

\* s.read(64) returns only the first k bytes of a reply that would have been
\* accepted (k = 0: the read timed out); the short reply is parsed
ShortRead ==
    /\ codecCall.fn = "parse_reply"
    /\ codecCall.origin = "input"
    /\ Accepted(codecRet)
    /\ \E k \in 0..(Len(codecCall.reply) - 1) :
         codecCall' = [codecCall EXCEPT
                         !.reply = SubSeq(@, 1, k),
                         !.origin = "cut",
                         !.pos = k]
    /\ codecRet' = Pending
    /\ UNCHANGED ctlVars

NextCodec == BuildCmd \/ ParseReply \/ FlipBit \/ ShortRead

SpecCodec == InitCodec /\ [][NextCodec]_vars

---------------------------------------------------------------------------
(* Properties of the frame codec, checked under SpecCodec.                 *)

Parsed == codecCall.fn = "parse_reply" /\ codecRet # Pending
Built == codecCall.fn = "build_cmd" /\ codecRet # Pending

\* the byte at 0-based offset i of the reply under test, -1 when it is absent
ReplyByte(i) ==
    IF i < Len(codecCall.reply) THEN codecCall.reply[i + 1] ELSE -1

\* the six checks of a reply, each stated on the bytes of the frame
HeaderBad == ReplyByte(0) # \H6F \/ ReplyByte(1) # \H37
LengthBad == ReplyByte(2) # Len(codecCall.reply) - 4
FormatBad == ReplyByte(3) # \H02
ResultBad == ReplyByte(4) # \H00
CommandBad == <<ReplyByte(5)>> # codecCall.cmd
ChecksumBad ==
    codecCall.reply[Len(codecCall.reply)]
      # XorAll(SubSeq(codecCall.reply, 1, Len(codecCall.reply) - 1), 0)

FirstFailure ==
    IF HeaderBad THEN "HeaderError"
    ELSE IF LengthBad THEN "LengthError"
    ELSE IF FormatBad THEN "FormatError"
    ELSE IF ResultBad THEN "ResultCodeError"
    ELSE IF CommandBad THEN "CommandError"
    ELSE IF ChecksumBad THEN "ChecksumError"
    ELSE "accepted"

\* C1: __parse_reply checks header, length, reply marker, result code, echoed
\* opcode and checksum in this order and raises the error of the first check
\* that fails, however many of the later checks the reply violates as well; a
\* ResultCodeError carries the numeric value of the result-code byte.
C1_FirstFailedCheckDecides ==
    Parsed =>
      /\ IF FirstFailure = "accepted" THEN Accepted(codecRet)
         ELSE codecRet.kind = FirstFailure
      /\ (codecRet.kind = "ResultCodeError" /\ ReplyByte(4) >= 0)
            => codecRet.code = ReplyByte(4)

\* a reply with a wrong result code, a wrong opcode and a wrong checksum at
\* once is reported as ResultCodeError with the device's code
C1_Witness ==
    /\ Parsed
    /\ ~HeaderBad /\ ~LengthBad /\ ~FormatBad
    /\ ResultBad /\ CommandBad /\ ChecksumBad
    /\ codecRet.kind = "ResultCodeError"
    /\ codecRet.code = 1

\* C2: the well-formed reply 6F 37 | 3+len(P) | 02 | 00 | O | P | xor is
\* accepted by __parse_reply for opcode O and yields exactly P, or None when
\* P is empty.
C2_WellFormedReplyDecodesToPayload ==
    LET P == Slice(codecCall.reply, 6, Len(codecCall.reply) - 1)
    IN  (Parsed /\ codecCall.reply = WellFormed(codecCall.cmd, P))
          => codecRet = IF P = <<>> THEN ReturnNone ELSE ReturnBytes(P)

C2_Witness ==
    /\ Parsed
    /\ codecCall.reply = WellFormed(codecCall.cmd, <<\H32, \H00>>)
    /\ codecRet = ReturnBytes(<<\H32, \H00>>)

\* the error the field at 0-based offset pos of a reply is checked by
FieldError(pos) ==
    CASE pos \in {0, 1} -> "HeaderError"
      [] pos = 2 -> "LengthError"
      [] pos = 3 -> "FormatError"
      [] pos = 4 -> "ResultCodeError"
      [] pos = 5 -> "CommandError"
      [] OTHER -> "ChecksumError"

\* C3: after one bit of an accepted reply is inverted, in any byte but the
\* trailing checksum byte, __parse_reply no longer accepts the reply: it
\* raises ChecksumError for a bit of the data bytes and the error of the
\* field's own check for a bit of the header, length, marker, result code or
\* opcode.
C3_SingleBitFlipIsRejected ==
    (Parsed /\ codecCall.origin = "flip"
            /\ codecCall.pos # Len(codecCall.reply) - 1)
      => codecRet.kind = FieldError(codecCall.pos)

C3_Witness ==
    /\ Parsed
    /\ codecCall.origin = "flip"
    /\ codecCall.pos = 7
    /\ Len(codecCall.reply) = 9
    /\ codecRet.kind = "ChecksumError"

---------------------------------------------------------------------------
(* Properties of the calls, checked under Spec.                            *)

Done == pc = "done"

\* exceptions that come from the exchange itself: the reply checks of
\* __parse_reply and the port that cannot be opened
ExchangeErrors ==
    {"HeaderError", "LengthError", "FormatError", "ResultCodeError",
     "CommandError", "ChecksumError", "SerialException"}

IsEnumMember(n) == Members[n].doc # "int"

\* 0-based position, in the documented Enum class of member n, of the member
\* whose value is the payload d
PositionOf(n, d) ==
    (CHOOSE i \in 1..Len(Enums[Members[n].doc]) :
        Enums[Members[n].doc][i].value = d) - 1

\* the command frame that writes the member at position i of n's Enum class
WriteFrameOf(n, i) ==
    LET d == Enums[Members[n].doc][i + 1].value
        c == <<\H37, \H51, 2 + Len(d), \HEA>> \o Members[n].cmd \o d
    IN  c \o <<XorAll(c, 0)>>

\* C5 as stated: a get of brightness writes the six bytes 37 51 03 EB 30 <chk>,
\* <chk> being the xor of the five bytes before it.
C5_GetBrightnessWritesLength03 ==
    (call.op = "get" /\ name = "brightness" /\ pc \in {"read", "close", "ret"})
      => /\ Len(wire) = 1
         /\ Len(wire[1]) = 6
         /\ SubSeq(wire[1], 1, 5) = <<\H37, \H51, \H03, \HEB, \H30>>
         /\ wire[1][6] = XorAll(SubSeq(wire[1], 1, 5), 0)

\* C5 (amended): a get of brightness writes exactly one command frame, the
\* six bytes 37 51 02 EB 30 BF: the length byte is 02, the count of the
\* direction and opcode bytes, and BF is the xor of the five bytes before it.
C5_GetBrightnessWritesLength02 ==
    (call.op = "get" /\ name = "brightness")
      => /\ (pc \in {"read", "close", "ret"} => Len(wire) = 1)
         /\ Len(wire) <= 1
         /\ \A i \in 1..Len(wire) :
              /\ wire[i] = <<\H37, \H51, \H02, \HEB, \H30, \HBF>>
              /\ wire[i][6] = XorAll(SubSeq(wire[i], 1, 5), 0)

C5_Witness ==
    /\ call.op = "get" /\ name = "brightness" /\ Done
    /\ wire = << <<\H37, \H51, \H02, \HEB, \H30, \HBF>> >>
    /\ result = Return(PyInt(50))

\* the reply 6F 37 | ln | 02 00 30 32 | xor of these seven bytes
BrightnessReply50(ln) ==
    LET c == <<\H6F, \H37, ln, \H02, \H00, \H30, \H32>>
    IN  c \o <<XorAll(c, 0)>>

\* C6 as stated: a brightness read answered by 6F 37 05 02 00 30 32 <chk>
\* passes validation and returns 50.
C6_ReplyLength05Gives50 ==
    (call.op = "get" /\ name = "brightness" /\ Done /\ rx = BrightnessReply50(\H05))
      => result = Return(PyInt(50))

\* C6 (amended): a brightness read answered by the eight bytes
\* 6F 37 04 02 00 30 32 <chk>, whose length byte 04 is the frame size less 4,
\* passes validation and returns 50.
C6_ReplyLength04Gives50 ==
    (call.op = "get" /\ name = "brightness" /\ Done /\ rx = BrightnessReply50(\H04))
      => result = Return(PyInt(50))

C6_Witness ==
    /\ call.op = "get" /\ name = "brightness" /\ Done
    /\ rx = BrightnessReply50(\H04)
    /\ Len(rx) = 8
    /\ qret = ReturnBytes(<<\H32>>)
    /\ result = Return(PyInt(50))

\* C7: set_value(n, v=v) on a bounded integer member (brightness, contrast,
\* sharpness, OSD transparency: 0..99; OSD timer: 5..59) with v outside the
\* domain fails before any transport I/O: no byte is written to the port, the
\* device value stays, the call ends with an exception.
C7_InvalidWriteNeverReachesWire ==
    (call.op = "set" /\ Members[name].doc = "int" /\ call.v.x \notin Domain(name))
      => /\ wire = <<>>
         /\ dev = call.dev0
         /\ (Done => result.kind # "return")

\* C8: set_value(n, ud=Up) on an Enum member whose device value is the last
\* member of its class writes the first member's value and returns the first
\* member, raising nothing (unless the exchange itself fails).
C8_UpAtLastWrapsToFirst ==
    (call.op = "up" /\ IsEnumMember(name) /\ Done
        /\ PositionOf(name, call.dev0) = Len(Enums[Members[name].doc]) - 1
        /\ result.kind \notin ExchangeErrors)
      => /\ result = Return(PyVal(Members[name].doc, 0))
         /\ Len(wire) = 2
         /\ wire[2] = WriteFrameOf(name, 0)
         /\ dev = Enums[Members[name].doc][1].value

\* C9: set_value(n, ud=Down) on an Enum member writes and returns the member
\* before the current one in declaration order, and the last member when the
\* current one is the first (unless the exchange itself fails).
C9_DownStepsToPreviousOrLast ==
    (call.op = "down" /\ IsEnumMember(name) /\ Done
        /\ result.kind \notin ExchangeErrors)
      => LET i == PositionOf(name, call.dev0)
             j == IF i = 0 THEN Len(Enums[Members[name].doc]) - 1 ELSE i - 1
         IN  /\ result = Return(PyVal(Members[name].doc, j))
             /\ Len(wire) = 2
             /\ wire[2] = WriteFrameOf(name, j)
             /\ dev = Enums[Members[name].doc][j + 1].value

\* C10: set_value(n, ud=...) on brightness, contrast, OSD transparency or OSD
\* timer whose candidate old + 1 / old - 1 leaves the domain holds the value:
\* only the Read frame is written, one port was opened, the device value is
\* unchanged, no exception reaches the caller and the value just read is
\* returned (it does not wrap to the other bound).
C10_OutOfRangeStepHolds ==
    (call.op \in {"up", "down"} /\ Done
        /\ name \in {"brightness", "contrast", "osd_transparency", "osd_timer"}
        /\ call.old.type = "int"
        /\ (call.old.x + call.ud) \notin Domain(name))
      => /\ result = Return(call.old)
         /\ call.old.x = from_bytes(call.dev0)
         /\ dev = call.dev0
         /\ opens = 1
         /\ Len(wire) = 1
         /\ wire[1][4] = \HEB

C10_Witness ==
    /\ call.op = "down" /\ Done
    /\ name = "osd_timer"
    /\ call.dev0 = <<5>>
    /\ call.old = PyInt(5)
    /\ result = Return(PyInt(5))
    /\ dev = <<5>>
    /\ Len(wire) = 1

\* C11: a get_value(n) that follows a set_value(n, v=x) which returned, x a
\* valid value of n's domain, returns x (unless the exchange itself fails):
\* the device stores the written payload and echoes it on read.
C11_GetAfterSetReturnsValue ==
    (call.op = "get" /\ Done
        /\ call.prev # PyNone
        /\ call.prev.x \in Domain(name)
        /\ result.kind \notin ExchangeErrors)
      => result = Return(call.prev)

\* the handle counters in a state: at most one handle is open, it is open
\* exactly between the open and the close of one query, and every handle
\* opened before has been closed once
HandleScoped ==
    /\ handle \in {0, 1}
    /\ handle = opens - closes
    /\ (pc \in {"write", "read", "close"} => handle = 1)
    /\ (pc \in {"idle", "open", "ret", "done"} => handle = 0)

\* C12: the serial handle is scoped to one exchange: at most one handle is
\* open in every state, a handle that query opened is eventually closed, once,
\* whether parse_reply returns or raises, and no handle is open once
\* get_value / set_value has returned or raised.
C12_HandleScopedToExchange ==
    /\ [] HandleScoped
    /\ [] (Done => handle = 0 /\ opens = closes)
    /\ ((handle = 1) ~> (handle = 0))

\* a query whose reply failed the checksum has left the with block
C12_Witness ==
    /\ pc = "ret"
    /\ qret.kind = "ChecksumError"
    /\ opens = 1 /\ closes = 1 /\ handle = 0

\* C13: when s.read(64) returns a proper prefix of a reply that would have
\* been accepted, the empty prefix included, __parse_reply returns nothing and
\* raises HeaderError if the prefix has fewer than 2 bytes and LengthError
\* otherwise; in particular it never raises ChecksumError.
C13_TruncatedReplyIsRejected ==
    (Parsed /\ codecCall.origin = "cut")
      => /\ Len(codecCall.reply) = codecCall.pos
         /\ codecRet.kind = IF Len(codecCall.reply) < 2 THEN "HeaderError"
                            ELSE "LengthError"
         /\ codecRet.data = <<>>

\* a reply of 8 bytes cut after the echoed opcode, the checksum and the data
\* missing: LengthError
C13_Witness ==
    /\ Parsed
    /\ codecCall.origin = "cut"
    /\ Len(codecCall.reply) = 6
    /\ codecRet.kind = "LengthError"

IsStep == call.op \in {"up", "down"}

\* byte 3 of a command frame: EB in a Read command, EA in a Write command
IsReadFrame(f) == <<f[4]>> = ReadWrite.Read
IsWriteFrame(f) == <<f[4]>> = ReadWrite.Write

\* C14: set_value(n, ud=ud) runs one Read exchange first and, only after that
\* exchange returned a value and its handle was closed, at most one Write
\* exchange. It sends at most two command frames, a Read frame then a Write
\* frame, never a second Read or a second Write. When the Read exchange fails
\* no Write frame is sent and the error is raised; when the Write exchange
\* fails its error is raised.
C14_StepReadsThenWritesOnce ==
    IsStep =>
      /\ opens <= 2 /\ Len(wire) <= opens
      /\ (Len(wire) >= 1 => IsReadFrame(wire[1]))
      /\ (Len(wire) = 2 =>
            /\ IsWriteFrame(wire[2])
            /\ wire[2] = build_cmd("Write", Members[name].cmd,
                                   exec_assign(name, call.new).data).data)
      /\ (call.stage = "old" => opens <= 1)
      /\ (opens = 2 =>
            /\ call.stage = "new"
            /\ closes >= 1
            /\ call.old # PyNone)
      /\ (call.stage = "new" /\ pc \in {"write", "read", "close"} =>
            opens = 2 /\ closes = 1 /\ handle = 1)
      /\ (Done /\ call.stage = "old" =>
            /\ Len(wire) <= 1
            /\ result.kind # "return"
            /\ (opens = 0 => result.kind = "SerialException")
            /\ (opens = 1 /\ ~Accepted(qret) =>
                  result.kind = qret.kind /\ result.code = qret.code))
      /\ (Done /\ call.stage = "new" =>
            IF opens = 1 THEN result.kind = "SerialException"
            ELSE IF Accepted(qret) THEN result = Return(call.new)
            ELSE result.kind = qret.kind /\ result.code = qret.code)

\* a step whose Read returned and whose Write was answered with a bad checksum
C14_Witness ==
    /\ IsStep /\ Done
    /\ call.stage = "new"
    /\ Len(wire) = 2
    /\ opens = 2 /\ closes = 2
    /\ result.kind = "ChecksumError"

\* C15: a reply that __parse_reply accepts declares a length of at least 3,
\* so that the marker, the result code and the echoed opcode at offsets 3, 4
\* and 5 lie before the checksum byte; a reply that declares less is rejected.
C15_AcceptedReplyHasFixedBody ==
    (Parsed /\ Accepted(codecRet))
      => /\ ReplyByte(2) >= 3
         /\ Len(codecCall.reply) >= 7

=============================================================================
